---- MODULE Spec2Model ----
(***************************************************************************)
(* Model of cockpit/util/correctNonlinear.py: the Corrector and            *)
(* SubCorrector classes that linearise a camera's response.                *)
(*                                                                         *)
(* Numbers.  The program computes in float32/float64.  The model computes  *)
(* the same expressions over exact rationals <<numerator, denominator>>    *)
(* (denominator > 0, lowest terms), so rounding is abstracted away and     *)
(* equalities are exact.  Division by zero yields the IEEE values the      *)
(* program gets (nan, +inf, -inf), which are modelled as such.             *)
(*                                                                         *)
(* Images.  An image is a sequence of NumPixels values (the flattened      *)
(* 2D array); every operation of the program is per pixel.                 *)
(*                                                                         *)
(* Interpreter.  numpy.polyfit is given map(numpy.mean, ...) at line 98;   *)
(* the model takes it to be the list of frame means (the Python 2 meaning  *)
(* the module was written for).                                            *)
(***************************************************************************)
EXTENDS Integers, Sequences, FiniteSets, TLC

(***************************************************************************)
(* Bounds of the model and constants of the program.                       *)
(***************************************************************************)
\* Number of pixels of an image.
NumPixels == 2

\* The "uncorrected" marker: result starts as -1 (line 170), and
\* map_coordinates is called with cval = -1 (line 248).
SentinelValue == -1

\* Extrapolation target 2 ** 16 - 1 (line 136).
MaxInt == 65535

\* Factor on the median spacing that makes a gap (line 116).
GapFactor == 10

\* Sample rate of cluster and gap SubCorrectors (lines 121, 125, 131).
ClusterSampleRate == 2

\* Sample rate of the two extrapolating SubCorrectors (line 159).
ExtrapolationSampleRate == 1

Pixels == 1..NumPixels

(***************************************************************************)
(* Exact rational arithmetic.                                              *)
(***************************************************************************)
Abs(x) == IF x < 0 THEN -x ELSE x

RECURSIVE GCD(_, _)
GCD(a, b) == IF b = 0 THEN a ELSE GCD(b, a % b)

\* n/d in lowest terms with a positive denominator (d # 0).
Rat(n, d) ==
    LET g == GCD(Abs(n), Abs(d))
        s == IF d < 0 THEN -1 ELSE 1
    IN  <<(s * n) \div g, (s * d) \div g>>

R(n) == <<n, 1>>

RAdd(x, y) ==
    LET g == GCD(x[2], y[2])
    IN  Rat(x[1] * (y[2] \div g) + y[1] * (x[2] \div g), x[2] * (y[2] \div g))

RNeg(x) == <<-x[1], x[2]>>

RSub(x, y) == RAdd(x, RNeg(y))

RMul(x, y) ==
    LET g1 == GCD(Abs(x[1]), y[2])
        g2 == GCD(Abs(y[1]), x[2])
    IN  Rat((x[1] \div g1) * (y[1] \div g2), (x[2] \div g2) * (y[2] \div g1))

\* x / y for y # 0.
RDiv(x, y) == RMul(x, Rat(y[2], y[1]))

RLt(x, y) ==
    LET g == GCD(x[2], y[2])
    IN  x[1] * (y[2] \div g) < y[1] * (x[2] \div g)

RLe(x, y) == x = y \/ RLt(x, y)

RFloor(x) == x[1] \div x[2]

Sentinel == R(SentinelValue)

RECURSIVE RSum(_)
RSum(s) == IF s = <<>> THEN R(0) ELSE RAdd(Head(s), RSum(Tail(s)))

RECURSIVE RMin(_)
RMin(s) ==
    IF Len(s) = 1 THEN s[1]
    ELSE LET m == RMin(Tail(s)) IN IF RLt(m, s[1]) THEN m ELSE s[1]

RECURSIVE RMax(_)
RMax(s) ==
    IF Len(s) = 1 THEN s[1]
    ELSE LET m == RMax(Tail(s)) IN IF RLt(s[1], m) THEN m ELSE s[1]

\* Sequence s sorted ascending (insertion sort).
RECURSIVE RInsert(_, _)
RInsert(x, s) ==
    IF s = <<>> THEN <<x>>
    ELSE IF RLe(x, Head(s)) THEN <<x>> \o s
    ELSE <<Head(s)>> \o RInsert(x, Tail(s))

RECURSIVE RSort(_)
RSort(s) == IF s = <<>> THEN <<>> ELSE RInsert(Head(s), RSort(Tail(s)))

(***************************************************************************)
(* numpy functions the program calls.                                      *)
(***************************************************************************)
\* numpy.mean of one image.
Mean(image) == RDiv(RSum(image), R(Len(image)))

\* numpy.median of a non-empty sequence.
Median(s) ==
    LET v == RSort(s)
        n == Len(v)
    IN  IF n % 2 = 1 THEN v[(n + 1) \div 2]
        ELSE RDiv(RAdd(v[n \div 2], v[n \div 2 + 1]), R(2))

\* numpy.polyfit(xs, ys, 1): <<slope, intercept>> of the least-squares line.
\* When all xs are equal (to t # 0) the system is rank deficient and lstsq
\* returns the minimum-norm solution of the column-scaled system, which is
\* slope = mean(ys) / (2 t), intercept = mean(ys) / 2.
Polyfit(xs, ys) ==
    LET n   == Len(xs)
        sx  == RSum(xs)
        sy  == RSum(ys)
        sxy == RSum([k \in 1..n |-> RMul(xs[k], ys[k])])
        sxx == RSum([k \in 1..n |-> RMul(xs[k], xs[k])])
        den == RSub(RMul(R(n), sxx), RMul(sx, sx))
    IN  IF den = R(0)
        THEN LET ybar == RDiv(sy, R(n))
             IN  <<RDiv(ybar, RMul(R(2), xs[1])), RDiv(ybar, R(2))>>
        ELSE LET a == RDiv(RSub(RMul(R(n), sxy), RMul(sx, sy)), den)
             IN  <<a, RDiv(RSub(sy, RMul(a, sx)), R(n))>>

\* numpy.linspace(lo, hi, n), n >= 2.
Linspace(lo, hi, n) ==
    [k \in 1..n |-> RAdd(lo, RDiv(RMul(R(k - 1), RSub(hi, lo)), R(n - 1)))]

\* The index numpy.interp's search gives for key x in xp: Len(xp) + 1 when x
\* is above the last entry, 0 when it is below the first, otherwise the
\* entry before the first one (from the second on) that exceeds x.
RECURSIVE InterpScan(_, _, _)
InterpScan(x, xp, i) ==
    IF i <= Len(xp) /\ RLe(xp[i], x) THEN InterpScan(x, xp, i + 1) ELSE i - 1

InterpIndex(x, xp) ==
    IF RLt(xp[Len(xp)], x) THEN Len(xp) + 1
    ELSE IF RLt(x, xp[1]) THEN 0
    ELSE InterpScan(x, xp, 2)

\* numpy.interp(x, xp, fp) for one x.
Interp(x, xp, fp) ==
    LET j == InterpIndex(x, xp)
    IN  IF j = 0 THEN fp[1]
        ELSE IF j >= Len(xp) THEN fp[Len(xp)]
        ELSE IF xp[j] = x THEN fp[j]
        ELSE RAdd(RMul(RDiv(RSub(fp[j + 1], fp[j]), RSub(xp[j + 1], xp[j])),
                       RSub(x, xp[j])),
                  fp[j])

(***************************************************************************)
(* SubCorrector (lines 207-249).                                           *)
(***************************************************************************)
\* The values of pixel p through a sequence of images.
PixelSeries(images, p) == [f \in 1..Len(images) |-> images[f][p]]

\* SubCorrector.__init__: minVals and maxVals per pixel, numSamples, and for
\* every pixel a uniform sampling of its counts with the exposure time
\* numpy.interp gives each sample.
NewSubCorrector(times, images, sampleRate) ==
    LET mins == [p \in Pixels |-> RMin(PixelSeries(images, p))]
        maxs == [p \in Pixels |-> RMax(PixelSeries(images, p))]
        n    == Len(images) * sampleRate
        data == [p \in Pixels |-> Linspace(mins[p], maxs[p], n)]
    IN  [exposureTimes    |-> times,
         imageData        |-> images,
         minVals          |-> mins,
         maxVals          |-> maxs,
         numSamples       |-> n,
         uniformData      |-> data,
         uniformExposures |->
             [p \in Pixels |->
                 [s \in 1..n |-> Interp(data[p][s], PixelSeries(images, p), times)]]]

\* Line 243 for one pixel: the fractional index into the uniform table.
\* max = min divides by zero: 0/0 is nan, x/0 is +inf or -inf.
Indices(sub, p, value) ==
    LET num == RMul(R(sub.numSamples - 1), RSub(value, sub.minVals[p]))
        den == RSub(sub.maxVals[p], sub.minVals[p])
    IN  IF den # R(0) THEN [kind |-> "finite", val |-> RDiv(num, den)]
        ELSE IF num = R(0) THEN [kind |-> "nan", val |-> R(0)]
        ELSE IF RLt(R(0), num) THEN [kind |-> "posinf", val |-> R(0)]
        ELSE [kind |-> "neginf", val |-> R(0)]

\* The index is one map_coordinates interpolates at: finite and within
\* [0, numSamples - 1].
InTable(sub, idx) ==
    /\ idx.kind = "finite"
    /\ RLe(R(0), idx.val)
    /\ RLe(idx.val, R(sub.numSamples - 1))

\* scipy.ndimage map_coordinates(order = 1, cval = -1) along the sample axis
\* for one pixel: cval outside the table (nan compares false with the bounds
\* and takes the constant branch too), linear interpolation between the two
\* neighbouring samples inside it.
MapCoordinates(sub, p, idx) ==
    IF ~InTable(sub, idx) THEN Sentinel
    ELSE LET lo   == RFloor(idx.val)
             frac == RSub(idx.val, R(lo))
             tab  == sub.uniformExposures[p]
         IN  IF frac = R(0) THEN tab[lo + 1]
             ELSE RAdd(RMul(RSub(R(1), frac), tab[lo + 1]),
                       RMul(frac, tab[lo + 2]))

\* SubCorrector.correct for one pixel.
CorrectPixel(sub, p, value) == MapCoordinates(sub, p, Indices(sub, p, value))

\* SubCorrector.correct (lines 242-249).
SubCorrect(sub, input) == [p \in Pixels |-> CorrectPixel(sub, p, input[p])]

(***************************************************************************)
(* Calibration data handed to the constructor, and the counts images are   *)
(* probed with.  Exposure times are sorted ascending (lines 292-294) and   *)
(* positive; every pixel's counts are non-decreasing in exposure time, as  *)
(* the program assumes.  Pixel p follows response curve                    *)
(* curves[((p - 1) % Len(curves)) + 1].                                    *)
(***************************************************************************)
Calibrations ==
    { \* times 1, 2, 3, 10, 11, 12 with counts 100 t + 50
      [name   |-> "scenario",
       times  |-> <<1, 2, 3, 10, 11, 12>>,
       curves |-> << <<150, 250, 350, 1050, 1150, 1250>> >>,
       probes |-> {150, 350, 650, 1250, 7000000}],
      \* exactly linear, 2 t + 3, with a gap between 3 and 40
      [name   |-> "linearGap",
       times  |-> <<1, 2, 3, 40>>,
       curves |-> << <<5, 7, 9, 83>> >>,
       probes |-> {4, 5, 8, 9, 46, 83}],
      \* two different responses, one with a flat stretch, and a gap
      [name   |-> "curvedGap",
       times  |-> <<1, 2, 3, 40>>,
       curves |-> << <<5, 7, 9, 83>>, <<4, 6, 6, 50>> >>,
       probes |-> {4, 6, 9, 30, 50, 200000}],
      \* flat at the low end
      [name   |-> "plateau",
       times  |-> <<1, 2, 3>>,
       curves |-> << <<8, 8, 12>> >>,
       probes |-> {0, 8, 10, 12, 500, 200000}],
      \* small signal on a large offset: t + 1023
      [name   |-> "offset",
       times  |-> <<1, 2, 3>>,
       curves |-> << <<1024, 1025, 1026>> >>,
       probes |-> {0, 896, 1024, 1025, 1026, 2000}],
      \* convex response
      [name   |-> "convex",
       times  |-> <<1, 2, 3>>,
       curves |-> << <<10, 20, 100>> >>,
       probes |-> {0, 5, 10, 55, 100}],
      \* one pixel that never responds
      [name   |-> "deadPixel",
       times  |-> <<1, 2, 3>>,
       curves |-> << <<10, 20, 30>>, <<7, 7, 7>> >>,
       probes |-> {7, 10, 15, 30}],
      \* a gap right after the first exposure
      [name   |-> "gapFirst",
       times  |-> <<1, 100, 101, 102>>,
       curves |-> << <<5, 203, 205, 207>> >>,
       probes |-> {5, 100, 205}],
      \* two gaps next to each other, the second before the last exposure
      [name   |-> "adjacentGaps",
       times  |-> <<1, 2, 3, 4, 5, 100, 200>>,
       curves |-> << <<2, 4, 6, 8, 10, 200, 400>> >>,
       probes |-> {6, 100, 300}],
      \* a step of exactly 10 median spacings
      [name   |-> "exactTen",
       times  |-> <<1, 2, 3, 13>>,
       curves |-> << <<3, 5, 7, 27>> >>,
       probes |-> {5, 20, 28}],
      \* fewer than two distinct exposure times
      [name   |-> "single",
       times  |-> <<2>>,
       curves |-> << <<6>> >>,
       probes |-> {3, 6, 7}],
      [name   |-> "duplicate",
       times  |-> <<2, 2>>,
       curves |-> << <<6, 6>> >>,
       probes |-> {3, 6, 7}],
      [name   |-> "empty",
       times  |-> <<>>,
       curves |-> << <<>> >>,
       probes |-> {0}] }

\* The count of pixel p in frame f of calibration c.
Count(c, f, p) == c.curves[((p - 1) % Len(c.curves)) + 1][f]

\* The constructor's mapData argument.
MapData(c) == [f \in 1..Len(c.times) |-> [p \in Pixels |-> R(Count(c, f, p))]]

\* The images correct() is called with.
InputImages(c) == [Pixels -> {R(v) : v \in c.probes}]

NoImage == [p \in Pixels |-> R(0)]

VARIABLES
    pc,              \* where the program is
    calibration,     \* the constructor's arguments
    error,           \* the exception that ended construction, or "none"
    exposureTimes,   \* Corrector.exposureTimes
    imageData,       \* Corrector.imageData
    slope,           \* Corrector.slope
    intercept,       \* Corrector.intercept
    exposureSpacing, \* median spacing of the exposure times, or "nan"
    subCorrectors,   \* Corrector.subCorrectors
    curIndices,      \* indices of the current cluster (1-based)
    i,               \* the scan's index into exposureTimes (1-based)
    inputData,       \* correct()'s argument
    result,          \* correct()'s result array
    corrector,       \* index of the SubCorrector the loop applies next
    exposures,       \* what the last SubCorrector.correct returned
    badPixels,       \* the pixels correct() failed on
    output,          \* what correct() returned
    writer,          \* history: per pixel, the SubCorrector that last wrote it
    built,           \* history: the calibration state when construction ended
    argument,        \* history: correct()'s argument as the caller passed it
    previous         \* history: the output of the call before, same input

calibrationState ==
    <<exposureTimes, imageData, slope, intercept, subCorrectors>>

callState ==
    <<inputData, result, corrector, exposures, badPixels, output, argument>>

vars ==
    <<pc, calibration, error, exposureTimes, imageData, slope, intercept,
      exposureSpacing, subCorrectors, curIndices, i, inputData, result,
      corrector, exposures, badPixels, output, writer, built, argument,
      previous>>

Init ==
    /\ pc = "new"
    /\ calibration \in Calibrations
    /\ error = "none"
    /\ exposureTimes = <<>>
    /\ imageData = <<>>
    /\ slope = R(0)
    /\ intercept = R(0)
    /\ exposureSpacing = "nan"
    /\ subCorrectors = <<>>
    /\ curIndices = <<>>
    /\ i = 1
    /\ inputData = NoImage
    /\ result = NoImage
    /\ corrector = 1
    /\ exposures = NoImage
    /\ badPixels = {}
    /\ output = NoImage
    /\ writer = [p \in Pixels |-> 0]
    /\ built = <<>>
    /\ argument = NoImage
    /\ previous = <<>>

(***************************************************************************)
(* Corrector.__init__ (lines 86-160).                                      *)
(***************************************************************************)
\* Consecutive differences exposureTimes[1:] - exposureTimes[:-1].
Spacings(times) == [j \in 1..(Len(times) - 1) |-> RSub(times[j + 1], times[j])]

\* IsGap with half the factor on the median spacing.
IsGapHalfFactor(expTime, prevTime, spacing) ==
    RLt(RMul(spacing, R(GapFactor \div 2)), RSub(expTime, prevTime))

\* IsGap that also takes a step of exactly GapFactor spacings for a gap.
IsGapInclusive(expTime, prevTime, spacing) ==
    RLe(RMul(spacing, R(GapFactor)), RSub(expTime, prevTime))

\* Line 116: the step from prevTime to expTime is a gap.
IsGap(expTime, prevTime, spacing) ==
    RLt(RMul(spacing, R(GapFactor)), RSub(expTime, prevTime))

\* self.exposureTimes[indices], self.imageData[indices] as a SubCorrector.
ClusterCorrector(times, images, indices) ==
    NewSubCorrector([j \in 1..Len(indices) |-> times[indices[j]]],
                    [j \in 1..Len(indices) |-> images[indices[j]]],
                    ClusterSampleRate)

\* Lines 137-147: per pixel, the line fitted to SubCorrector sub's data,
\* evaluated at target.
Extrapolated(sub, target) ==
    [p \in Pixels |->
        LET fit == Polyfit(sub.exposureTimes, PixelSeries(sub.imageData, p))
        IN  RAdd(RMul(fit[1], R(target)), fit[2])]

\* Lines 149-159 for startIndex = 0: from the extrapolated image, at time
\* -intercept / slope, to the first image of the first SubCorrector.
LowCorrector(subs, a, b) ==
    LET sub == subs[1]
    IN  NewSubCorrector(<<RNeg(RDiv(b, a)), sub.exposureTimes[1]>>,
                        <<Extrapolated(sub, -MaxInt), sub.imageData[1]>>,
                        ExtrapolationSampleRate)

\* Lines 149-159 for startIndex = -1: from the last image of the last
\* SubCorrector to the extrapolated image, at time target - intercept / slope.
HighCorrector(subs, a, b) ==
    LET sub == subs[Len(subs)]
        n   == Len(sub.exposureTimes)
    IN  NewSubCorrector(<<sub.exposureTimes[n], RSub(R(MaxInt), RDiv(b, a))>>,
                        <<sub.imageData[n], Extrapolated(sub, MaxInt)>>,
                        ExtrapolationSampleRate)

\* Lines 88-109.  mapData[0] of an empty list raises IndexError.
BeginConstruct ==
    /\ pc = "new"
    /\ IF Len(calibration.times) = 0
       THEN /\ pc' = "failed"
            /\ error' = "IndexError"
            /\ UNCHANGED <<exposureTimes, imageData, slope, intercept,
                           exposureSpacing>>
       ELSE LET times == [j \in 1..Len(calibration.times) |->
                              R(calibration.times[j])]
                data  == MapData(calibration)
                fit   == Polyfit(times, [f \in 1..Len(data) |-> Mean(data[f])])
            IN  /\ pc' = "scan"
                /\ error' = "none"
                /\ exposureTimes' = times
                /\ imageData' = data
                /\ slope' = fit[1]
                /\ intercept' = fit[2]
                /\ exposureSpacing' =
                       IF Len(times) = 1 THEN "nan" ELSE Median(Spacings(times))
    /\ subCorrectors' = <<>>
    /\ curIndices' = <<>>
    /\ i' = 1
    /\ UNCHANGED <<calibration, callState, writer, built, previous>>

\* ScanExposure that closes the cluster at a gap but adds no SubCorrector
\* for the gap itself.
ScanExposureNoBridge ==
    /\ pc = "scan"
    /\ i <= Len(exposureTimes)
    /\ IF i = 1
       THEN /\ curIndices' = Append(curIndices, i)
            /\ UNCHANGED subCorrectors
       ELSE IF IsGap(exposureTimes[i], exposureTimes[i - 1], exposureSpacing)
       THEN /\ subCorrectors' =
                   Append(subCorrectors,
                          ClusterCorrector(exposureTimes, imageData, curIndices))
            /\ curIndices' = <<i>>
       ELSE /\ curIndices' = Append(curIndices, i)
            /\ UNCHANGED subCorrectors
    /\ i' = i + 1
    /\ UNCHANGED <<pc, calibration, error, exposureTimes, imageData, slope,
                   intercept, exposureSpacing, callState, writer, built,
                   previous>>

\* One pass of the loop of lines 110-127.
ScanExposure ==
    /\ pc = "scan"
    /\ i <= Len(exposureTimes)
    /\ IF i = 1
       THEN /\ curIndices' = Append(curIndices, i)
            /\ UNCHANGED subCorrectors
       ELSE IF IsGap(exposureTimes[i], exposureTimes[i - 1], exposureSpacing)
       THEN /\ subCorrectors' =
                   subCorrectors
                   \o <<ClusterCorrector(exposureTimes, imageData, curIndices),
                        ClusterCorrector(exposureTimes, imageData, <<i - 1, i>>)>>
            /\ curIndices' = <<i>>
       ELSE /\ curIndices' = Append(curIndices, i)
            /\ UNCHANGED subCorrectors
    /\ i' = i + 1
    /\ UNCHANGED <<pc, calibration, error, exposureTimes, imageData, slope,
                   intercept, exposureSpacing, callState, writer, built,
                   previous>>

\* Lines 130-131: the remaining cluster.
CloseRemainder ==
    /\ pc = "scan"
    /\ i > Len(exposureTimes)
    /\ subCorrectors' =
           Append(subCorrectors,
                  ClusterCorrector(exposureTimes, imageData, curIndices))
    /\ pc' = "extrapolate"
    /\ UNCHANGED <<calibration, error, exposureTimes, imageData, slope,
                   intercept, exposureSpacing, curIndices, i, callState,
                   writer, built, previous>>

\* Lines 135-160: the two extrapolating SubCorrectors, appended last.
Extrapolate ==
    /\ pc = "extrapolate"
    /\ subCorrectors' =
           subCorrectors
           \o <<LowCorrector(subCorrectors, slope, intercept),
                HighCorrector(subCorrectors, slope, intercept)>>
    /\ built' = <<exposureTimes, imageData, slope, intercept, subCorrectors'>>
    /\ pc' = "ready"
    /\ UNCHANGED <<calibration, error, exposureTimes, imageData, slope,
                   intercept, exposureSpacing, curIndices, i, callState,
                   writer, previous>>

(***************************************************************************)
(* Corrector.correct (lines 168-196).                                      *)
(***************************************************************************)
\* Lines 173-174: every pixel the SubCorrector gave a value other than -1
\* takes that value.
Merge(res, exps) ==
    [p \in Pixels |-> IF exps[p] # Sentinel THEN exps[p] ELSE res[p]]

\* Line 175: numpy.all(result != -1).
AllDone(res) == \A p \in Pixels : res[p] # Sentinel

\* Line 186: the pixels still at -1.
BadPixels(res) == {p \in Pixels : res[p] = Sentinel}

\* Line 193: the failed pixels take the input's value.
Fallback(res, input) ==
    [p \in Pixels |-> IF p \in BadPixels(res) THEN input[p] ELSE res[p]]

\* Rescale that leaves the intercept out.
RescaleSlopeOnly(res, a, b) == [p \in Pixels |-> RMul(res[p], a)]

\* Line 196: result * slope + intercept.
Rescale(res, a, b) == [p \in Pixels |-> RAdd(RMul(res[p], a), b)]

\* The loop of lines 171-177 from SubCorrector c on, as a function of the
\* input: the result array when the loop ends.
RECURSIVE CorrectLoop(_, _, _, _)
CorrectLoop(subs, input, res, c) ==
    IF c > Len(subs) THEN res
    ELSE LET merged == Merge(res, SubCorrect(subs[c], input))
         IN  IF AllDone(merged) THEN merged
             ELSE CorrectLoop(subs, input, merged, c + 1)

\* Corrector.correct as a function of the input (lines 168-196).
CorrectImage(subs, a, b, input) ==
    Rescale(Fallback(CorrectLoop(subs, input, [p \in Pixels |-> Sentinel], 1),
                     input),
            a, b)

\* Lines 168-170: a call of correct() starts.
StartCorrect ==
    /\ pc \in {"ready", "returned"}
    /\ \E image \in InputImages(calibration) :
          /\ inputData' = image
          /\ argument' = image
          /\ previous' = IF pc = "returned" /\ image = inputData
                         THEN <<output>> ELSE <<>>
    /\ result' = [p \in Pixels |-> Sentinel]
    /\ corrector' = 1
    /\ writer' = [p \in Pixels |-> 0]
    /\ exposures' = NoImage
    /\ badPixels' = {}
    /\ output' = NoImage
    /\ pc' = "loop"
    /\ UNCHANGED <<calibration, error, exposureTimes, imageData, slope,
                   intercept, exposureSpacing, subCorrectors, curIndices, i,
                   built>>

\* One pass of the loop of lines 171-177.
ApplySubCorrector ==
    /\ pc = "loop"
    /\ corrector <= Len(subCorrectors)
    /\ LET exps == SubCorrect(subCorrectors[corrector], inputData)
           res  == Merge(result, exps)
       IN  /\ exposures' = exps
           /\ result' = res
           /\ writer' = [p \in Pixels |->
                            IF exps[p] # Sentinel THEN corrector
                            ELSE writer[p]]
           /\ pc' = IF AllDone(res) \/ corrector = Len(subCorrectors)
                    THEN "merged" ELSE "loop"
    /\ corrector' = corrector + 1
    /\ UNCHANGED <<calibration, error, exposureTimes, imageData, slope,
                   intercept, exposureSpacing, subCorrectors, curIndices, i,
                   inputData, badPixels, output, built, argument, previous>>

\* FinishCorrect with the assignment of line 193 the wrong way round: the
\* failed pixels of the input take the result's value.
FinishCorrectInPlace ==
    /\ pc = "merged"
    /\ badPixels' = BadPixels(result)
    /\ inputData' = [p \in Pixels |->
                        IF p \in BadPixels(result) THEN result[p]
                        ELSE inputData[p]]
    /\ output' = Rescale(result, slope, intercept)
    /\ pc' = "returned"
    /\ UNCHANGED <<calibration, error, exposureTimes, imageData, slope,
                   intercept, exposureSpacing, subCorrectors, curIndices, i,
                   result, corrector, exposures, writer, built, argument,
                   previous>>

\* Lines 178-196: the fallback for failed pixels and the rescaling.
FinishCorrect ==
    /\ pc = "merged"
    /\ badPixels' = BadPixels(result)
    /\ result' = Fallback(result, inputData)
    /\ output' = Rescale(Fallback(result, inputData), slope, intercept)
    /\ pc' = "returned"
    /\ UNCHANGED <<calibration, error, exposureTimes, imageData, slope,
                   intercept, exposureSpacing, subCorrectors, curIndices, i,
                   inputData, corrector, exposures, writer, built, argument,
                   previous>>

Next ==
    \/ BeginConstruct
    \/ ScanExposure
    \/ CloseRemainder
    \/ Extrapolate
    \/ StartCorrect
    \/ ApplySubCorrector
    \/ FinishCorrect

Spec == Init /\ [][Next]_vars

(***************************************************************************)
(* Properties.                                                             *)
(***************************************************************************)
Returned == pc = "returned"

\* The SubCorrectors that give pixel p of the current input a value other
\* than the sentinel.
Mappers(p) ==
    {c \in 1..Len(subCorrectors) :
        CorrectPixel(subCorrectors[c], p, inputData[p]) # Sentinel}

Earliest(S) == CHOOSE c \in S : \A d \in S : c <= d

\* C1: when the loop over the SubCorrectors has ended, every pixel that some
\* SubCorrector can map holds the value of the earliest SubCorrector in list
\* order that maps it (first writer wins).
FirstWriterWins ==
    pc = "merged" =>
        \A p \in Pixels :
            Mappers(p) # {} =>
                result[p] =
                    CorrectPixel(subCorrectors[Earliest(Mappers(p))], p,
                                 inputData[p])

\* C2: every pixel correct() failed on holds its raw input value in the
\* returned image.
RawPassthrough ==
    Returned => \A p \in badPixels : output[p] = argument[p]

\* The gaps of the calibration: the indices g whose exposure time is more
\* than GapFactor median spacings after the one before.
Gaps ==
    {g \in 2..Len(exposureTimes) :
        IsGap(exposureTimes[g], exposureTimes[g - 1], exposureSpacing)}

\* Pixel p's input lies strictly between its counts on the two sides of gap g.
InGap(g, p) ==
    /\ RLt(imageData[g - 1][p], inputData[p])
    /\ RLt(inputData[p], imageData[g][p])

\* C3: a count strictly between the counts on the two sides of a gap is
\* mapped by the 2-frame SubCorrector bridging that gap and is not a failure.
GapCoverage ==
    Returned =>
        \A g \in Gaps, p \in Pixels :
            InGap(g, p) =>
                /\ p \notin badPixels
                /\ writer[p] \in 1..Len(subCorrectors)
                /\ subCorrectors[writer[p]].exposureTimes
                       = <<exposureTimes[g - 1], exposureTimes[g]>>
                /\ result[p] =
                       CorrectPixel(subCorrectors[writer[p]], p, inputData[p])

\* C3 witness: a call returned for an input with a pixel inside a gap while
\* another pixel kept the loop running to the last SubCorrector.
GapCoverageWitness ==
    /\ Returned
    /\ \E g \in Gaps, p \in Pixels : InGap(g, p)
    /\ badPixels # {}
    /\ corrector > Len(subCorrectors)

\* The calibration of the concrete scenario: exposure times 1, 2, 3, 10, 11,
\* 12 and, for every pixel, counts 100 t + 50.
ScenarioTimes == <<R(1), R(2), R(3), R(10), R(11), R(12)>>

IsScenario ==
    /\ exposureTimes = ScenarioTimes
    /\ \A f \in 1..Len(imageData), p \in Pixels :
          imageData[f][p] = RAdd(RMul(R(100), exposureTimes[f]), R(50))

\* C4 as stated: in the scenario, 350 maps to exposure 3 (output 350), and
\* 650 maps to an exposure strictly between 3 and 10 through a gap bridge
\* spanning exactly the exposures 3 and 10.
ScenarioBridge ==
    (Returned /\ IsScenario) =>
        \A p \in Pixels :
            /\ inputData[p] = R(350) =>
                   result[p] = R(3) /\ output[p] = R(350)
            /\ inputData[p] = R(650) =>
                   /\ p \notin badPixels
                   /\ RLt(R(3), result[p]) /\ RLt(result[p], R(10))
                   /\ writer[p] \in 1..Len(subCorrectors)
                   /\ subCorrectors[writer[p]].exposureTimes = <<R(3), R(10)>>

\* C4 as amended: in the scenario the step from 3 to 10 is no gap (7 does
\* not exceed 10 times the median spacing 1), so there is one cluster and no
\* gap bridge; 350 maps to exposure 3 (output 350) and 650 to exposure 6
\* (output 650), both through the cluster of all six exposures, and neither
\* is a failure.
ScenarioCluster ==
    (Returned /\ IsScenario) =>
        /\ Len(subCorrectors) = 3
        /\ subCorrectors[1].exposureTimes = ScenarioTimes
        /\ \A c \in 1..Len(subCorrectors) :
              subCorrectors[c].exposureTimes # <<R(3), R(10)>>
        /\ \A p \in Pixels :
              /\ inputData[p] = R(350) =>
                     /\ result[p] = R(3) /\ output[p] = R(350)
                     /\ writer[p] = 1 /\ p \notin badPixels
              /\ inputData[p] = R(650) =>
                     /\ result[p] = R(6) /\ output[p] = R(650)
                     /\ writer[p] = 1 /\ p \notin badPixels

\* C4 witness: in the scenario a call returned for an image holding both 350
\* and 650.
ScenarioWitness ==
    /\ Returned
    /\ IsScenario
    /\ \E p, q \in Pixels : inputData[p] = R(350) /\ inputData[q] = R(650)

\* The lowest and highest count pixel p has in the calibration frames.
LowestCount(p) == RMin(PixelSeries(imageData, p))

HighestCount(p) == RMax(PixelSeries(imageData, p))

\* Positions of the two extrapolating SubCorrectors in the list.
LowIndex == Len(subCorrectors) - 1

HighIndex == Len(subCorrectors)

\* The count of pixel p lies in the count interval SubCorrector c spans.
InDomain(c, p, value) ==
    /\ RLe(subCorrectors[c].minVals[p], value)
    /\ RLe(value, subCorrectors[c].maxVals[p])

\* C5: a count below the pixel's lowest (above its highest) calibrated count
\* but within the interval of the low (high) extrapolating SubCorrector is
\* mapped by that SubCorrector and is not a failure.
ExtremesCoverage ==
    Returned =>
        \A p \in Pixels :
            /\ (RLt(inputData[p], LowestCount(p))
                  /\ InDomain(LowIndex, p, inputData[p])) =>
                   p \notin badPixels /\ writer[p] = LowIndex
            /\ (RLt(HighestCount(p), inputData[p])
                  /\ InDomain(HighIndex, p, inputData[p])) =>
                   p \notin badPixels /\ writer[p] = HighIndex

\* Every pixel of every calibration frame is a * exposure + b for one a > 0
\* and one b.
ExactLinear ==
    /\ Len(exposureTimes) >= 2
    /\ exposureTimes[1] # exposureTimes[Len(exposureTimes)]
    /\ LET n == Len(exposureTimes)
           a == RDiv(RSub(imageData[n][1], imageData[1][1]),
                     RSub(exposureTimes[n], exposureTimes[1]))
           b == RSub(imageData[1][1], RMul(a, exposureTimes[1]))
       IN  /\ RLt(R(0), a)
           /\ \A f \in 1..n, p \in Pixels :
                 imageData[f][p] = RAdd(RMul(a, exposureTimes[f]), b)

\* Pixel p's input is within its calibrated range, ends included.
InCalibratedRange(p) ==
    /\ RLe(LowestCount(p), inputData[p])
    /\ RLe(inputData[p], HighestCount(p))

\* C6: with an exactly linear calibration, correct() returns every count of
\* the calibrated range unchanged.
ExactLinearIdentity ==
    (Returned /\ ExactLinear) =>
        \A p \in Pixels : InCalibratedRange(p) => output[p] = argument[p]

\* C6 witness: a call returned under an exactly linear calibration with a
\* gap, for a count inside the gap, while a pixel outside the calibrated
\* range kept the loop running past the gap's SubCorrector.
ExactLinearWitness ==
    /\ Returned
    /\ ExactLinear
    /\ \E g \in Gaps, p \in Pixels :
          InGap(g, p) /\ InCalibratedRange(p) /\ corrector > writer[p] + 1
    /\ \E p \in Pixels : ~InCalibratedRange(p)

\* The SubCorrector the loop applied last.
Applied == subCorrectors[corrector - 1]

HasApplied == pc \in {"loop", "merged", "returned"} /\ corrector > 1

\* C7: within a pixel's calibrated domain of one SubCorrector, a higher
\* count never gets a lower value from SubCorrector.correct.
Monotonicity ==
    HasApplied =>
        \A p \in Pixels, v \in calibration.probes :
            (/\ InDomain(corrector - 1, p, inputData[p])
             /\ InDomain(corrector - 1, p, R(v))
             /\ RLe(inputData[p], R(v))) =>
                RLe(exposures[p], CorrectPixel(Applied, p, R(v)))

InCall == pc \in {"loop", "merged", "returned"}

\* C8: during and after any call of correct() the calibration state is the
\* state construction left, the input image is as the caller passed it, and
\* a call repeated on the same input returns the same output.
Purity ==
    InCall =>
        /\ calibrationState = built
        /\ inputData = argument
        /\ (Returned /\ previous # <<>>) => output = previous[1]

\* C8 witness: a second call on the same input returned, after a call that
\* went through the fallback for a failed pixel.
PurityWitness ==
    /\ Returned
    /\ previous # <<>>
    /\ badPixels # {}
    /\ Len(subCorrectors) > 3

\* The number of distinct exposure times handed to the constructor.
DistinctTimes ==
    Cardinality({calibration.times[j] : j \in 1..Len(calibration.times)})

\* C9: with fewer than 2 distinct exposure times construction fails, so it
\* never completes: no Corrector with a SubCorrector list comes out of it.
\* (The exception's name is left aside: an empty list does make the
\* constructor raise, with IndexError.)
InsufficientDataRejected ==
    DistinctTimes < 2 =>
        /\ pc \in {"new", "scan", "extrapolate", "failed"}
        /\ pc = "failed" => error # "none" /\ subCorrectors = <<>>

\* C10: SubCorrector.correct gives a pixel a value other than the sentinel
\* exactly when the pixel's fractional index lies in [0, numSamples - 1]; a
\* degenerate pixel (min = max) gets the sentinel.
SentinelIffOutside ==
    HasApplied =>
        \A p \in Pixels :
            /\ exposures[p] # Sentinel
                   <=> InTable(Applied, Indices(Applied, p, inputData[p]))
            /\ Applied.minVals[p] = Applied.maxVals[p] =>
                   exposures[p] = Sentinel

\* Construction has completed: a Corrector exists.
Constructed == pc \in {"ready", "loop", "merged", "returned"}

\* The indices (1-based) whose exposure time is strictly more than 10 median
\* spacings after the one before.
WideSteps ==
    {g \in 2..Len(exposureTimes) :
        RLt(RMul(R(10), Median(Spacings(exposureTimes))),
            RSub(exposureTimes[g], exposureTimes[g - 1]))}

\* The j-th wide step in time order.
WideStep(j) ==
    CHOOSE g \in WideSteps : Cardinality({h \in WideSteps : h < g}) = j - 1

\* First and last index of the j-th run of indices between wide steps.
RunStart(j) == IF j = 1 THEN 1 ELSE WideStep(j - 1)

RunEnd(j) ==
    IF j = Cardinality(WideSteps) + 1 THEN Len(exposureTimes)
    ELSE WideStep(j) - 1

\* Elements from..to of sequence s.
Slice(s, from, to) == [m \in 1..(to - from + 1) |-> s[from + m - 1]]

\* C11: with g wide steps, construction leaves 2g + 3 SubCorrectors: the
\* runs of indices between wide steps, in time order, each followed by the
\* 2-frame SubCorrector of the wide step that ends it, then the low and the
\* high extrapolating SubCorrector.  The runs are contiguous and partition
\* the indices; a step of exactly 10 median spacings is not a wide step and
\* splits nothing.
ConstructionOrder ==
    Constructed =>
        LET g == Cardinality(WideSteps)
            n == Len(exposureTimes)
        IN  /\ Len(subCorrectors) = 2 * g + 3
            /\ \A j \in 1..(g + 1) :
                  /\ RunStart(j) <= RunEnd(j)
                  /\ subCorrectors[2 * j - 1].exposureTimes
                         = Slice(exposureTimes, RunStart(j), RunEnd(j))
                  /\ subCorrectors[2 * j - 1].imageData
                         = Slice(imageData, RunStart(j), RunEnd(j))
            /\ \A j \in 1..g :
                  /\ subCorrectors[2 * j].exposureTimes
                         = Slice(exposureTimes, WideStep(j) - 1, WideStep(j))
                  /\ subCorrectors[2 * j].imageData
                         = Slice(imageData, WideStep(j) - 1, WideStep(j))
            /\ Len(subCorrectors[2 * g + 2].exposureTimes) = 2
            /\ subCorrectors[2 * g + 2].exposureTimes[2] = exposureTimes[1]
            /\ subCorrectors[2 * g + 2].imageData[2] = imageData[1]
            /\ Len(subCorrectors[2 * g + 3].exposureTimes) = 2
            /\ subCorrectors[2 * g + 3].exposureTimes[1] = exposureTimes[n]
            /\ subCorrectors[2 * g + 3].imageData[1] = imageData[n]

\* C11 witness: a Corrector built from a calibration with two wide steps
\* next to each other.
ConstructionOrderWitness ==
    /\ Constructed
    /\ \E g \in WideSteps : g + 1 \in WideSteps
    /\ Len(subCorrectors) = 7

\* C12: every SubCorrector of a Corrector built from at least 2 distinct
\* exposure times is built over at least 2 exposure times.
AtLeastTwoExposures ==
    (Constructed /\ DistinctTimes >= 2) =>
        \A c \in 1..Len(subCorrectors) :
            Len(subCorrectors[c].exposureTimes) >= 2

\* C13: the value correct() returns for a pixel depends on that pixel's
\* input alone: every image that agrees with the input at pixel p gets the
\* same output at pixel p.
PixelIndependence ==
    Returned =>
        \A p \in Pixels, image \in InputImages(calibration) :
            image[p] = inputData[p] =>
                CorrectImage(subCorrectors, slope, intercept, image)[p]
                    = output[p]

\* C14: a pixel whose input lies in the domain [min, max], min < max, of
\* some SubCorrector is not handled as a failure: it is not among the bad
\* pixels and its output is the rescaled value of the SubCorrector that
\* wrote it.
DomainNeverFails ==
    Returned =>
        \A p \in Pixels :
            (\E c \in 1..Len(subCorrectors) :
                /\ RLt(subCorrectors[c].minVals[p], subCorrectors[c].maxVals[p])
                /\ InDomain(c, p, inputData[p])) =>
                /\ p \notin badPixels
                /\ writer[p] \in 1..Len(subCorrectors)
                /\ output[p] =
                       RAdd(RMul(CorrectPixel(subCorrectors[writer[p]], p,
                                              inputData[p]),
                                 slope),
                            intercept)

====
